---- MODULE Spec2Model ----
(***************************************************************************)
(* The opcode table (core/src/opcode.rs) and the Handler contract          *)
(* (runtime/src/handler.rs) of the EVM, as a state machine.                *)
(*                                                                         *)
(* Three specifications:                                                   *)
(*   Spec         an Opcode value is built (from a raw byte or from one of *)
(*                the named constants) and its methods are applied to it;  *)
(*   HandlerSpec  a call frame driven through a Handler: the trait's       *)
(*                default methods are those of handler.rs, the interpreter *)
(*                and the orchestrator around them follow the design       *)
(*                document's call-frame state machine;                     *)
(*   FallbackSpec Handler::other applied to every byte.                    *)
(***************************************************************************)
EXTENDS Integers, Sequences, FiniteSets, TLC

VARIABLES
    opcode,   \* the u8 wrapped by the Opcode under examination (self.0)
    konst,    \* the named constant it was taken from, "" for Opcode(b)
    called,   \* the method or operation invoked last
    arg,      \* the argument it was given, <<>> when it takes none
    ret,      \* what it returned
    machine,  \* the Machine of the current frame: pc, stack, memory
    frame,    \* the frame's place in the call-frame state machine
    handler   \* the Handler implementation's own state

vars == <<opcode, konst, called, arg, ret, machine, frame, handler>>

\* u8
Byte == 0..255

(***************************************************************************)
(* Option and Result values.                                               *)
(***************************************************************************)
None == [tag |-> "None"]

Some(v) == [tag |-> "Some", val |-> v]

Ok(v) == [tag |-> "Ok", val |-> v]

Err(e) == [tag |-> "Err", val |-> e]

\* the unit value ()
Unit == "()"

\* An arithmetic overflow of a u8 expression: a panic in a build with overflow
\* checks, a wrapped value without them.
Overflow == [tag |-> "Overflow"]

(***************************************************************************)
(* core/src/opcode.rs                                                      *)
(***************************************************************************)

\* The arms of the match in as_str, in source order: <<pattern, mnemonic>>.
MnemonicArms ==
    << <<\h00, "STOP">>, <<\h01, "ADD">>, <<\h02, "MUL">>, <<\h03, "SUB">>,
       <<\h04, "DIV">>, <<\h05, "SDIV">>, <<\h06, "MOD">>, <<\h07, "SMOD">>,
       <<\h08, "ADDMOD">>, <<\h09, "MULMOD">>, <<\h0a, "EXP">>, <<\h0b, "SIGNEXTEND">>,
       <<\h10, "LT">>, <<\h11, "GT">>, <<\h12, "SLT">>, <<\h13, "SGT">>,
       <<\h14, "EQ">>, <<\h15, "ISZERO">>, <<\h16, "AND">>, <<\h17, "OR">>,
       <<\h18, "XOR">>, <<\h19, "NOT">>, <<\h1a, "BYTE">>, <<\h35, "CALLDATALOAD">>,
       <<\h36, "CALLDATASIZE">>, <<\h37, "CALLDATACOPY">>, <<\h38, "CODESIZE">>, <<\h39, "CODECOPY">>,
       <<\h1b, "SHL">>, <<\h1c, "SHR">>, <<\h1d, "SAR">>, <<\h50, "POP">>,
       <<\h51, "MLOAD">>, <<\h52, "MSTORE">>, <<\h53, "MSTORE8">>, <<\h56, "JUMP">>,
       <<\h57, "JUMPI">>, <<\h58, "PC">>, <<\h59, "MSIZE">>, <<\h5b, "JUMPDEST">>,
       <<\h5f, "PUSH0">>, <<\h60, "PUSH1">>, <<\h61, "PUSH2">>, <<\h62, "PUSH3">>,
       <<\h63, "PUSH4">>, <<\h64, "PUSH5">>, <<\h65, "PUSH6">>, <<\h66, "PUSH7">>,
       <<\h67, "PUSH8">>, <<\h68, "PUSH9">>, <<\h69, "PUSH10">>, <<\h6a, "PUSH11">>,
       <<\h6b, "PUSH12">>, <<\h6c, "PUSH13">>, <<\h6d, "PUSH14">>, <<\h6e, "PUSH15">>,
       <<\h6f, "PUSH16">>, <<\h70, "PUSH17">>, <<\h71, "PUSH18">>, <<\h72, "PUSH19">>,
       <<\h73, "PUSH20">>, <<\h74, "PUSH21">>, <<\h75, "PUSH22">>, <<\h76, "PUSH23">>,
       <<\h77, "PUSH24">>, <<\h78, "PUSH25">>, <<\h79, "PUSH26">>, <<\h7a, "PUSH27">>,
       <<\h7b, "PUSH28">>, <<\h7c, "PUSH29">>, <<\h7d, "PUSH30">>, <<\h7e, "PUSH31">>,
       <<\h7f, "PUSH32">>, <<\h80, "DUP1">>, <<\h81, "DUP2">>, <<\h82, "DUP3">>,
       <<\h83, "DUP4">>, <<\h84, "DUP5">>, <<\h85, "DUP6">>, <<\h86, "DUP7">>,
       <<\h87, "DUP8">>, <<\h88, "DUP9">>, <<\h89, "DUP10">>, <<\h8a, "DUP11">>,
       <<\h8b, "DUP12">>, <<\h8c, "DUP13">>, <<\h8d, "DUP14">>, <<\h8e, "DUP15">>,
       <<\h8f, "DUP16">>, <<\h90, "SWAP1">>, <<\h91, "SWAP2">>, <<\h92, "SWAP3">>,
       <<\h93, "SWAP4">>, <<\h94, "SWAP5">>, <<\h95, "SWAP6">>, <<\h96, "SWAP7">>,
       <<\h97, "SWAP8">>, <<\h98, "SWAP9">>, <<\h99, "SWAP10">>, <<\h9a, "SWAP11">>,
       <<\h9b, "SWAP12">>, <<\h9c, "SWAP13">>, <<\h9d, "SWAP14">>, <<\h9e, "SWAP15">>,
       <<\h9f, "SWAP16">>, <<\hf3, "RETURN">>, <<\hfd, "REVERT">>, <<\hfe, "INVALID">>,
       <<\hef, "EOFMAGIC">> >>

\* The constants of the "Core opcodes" impl block: <<value, constant name>>.
CoreOpcodes ==
    << <<\h00, "STOP">>, <<\h01, "ADD">>, <<\h02, "MUL">>, <<\h03, "SUB">>,
       <<\h04, "DIV">>, <<\h05, "SDIV">>, <<\h06, "MOD">>, <<\h07, "SMOD">>,
       <<\h08, "ADDMOD">>, <<\h09, "MULMOD">>, <<\h0a, "EXP">>, <<\h0b, "SIGNEXTEND">>,
       <<\h10, "LT">>, <<\h11, "GT">>, <<\h12, "SLT">>, <<\h13, "SGT">>,
       <<\h14, "EQ">>, <<\h15, "ISZERO">>, <<\h16, "AND">>, <<\h17, "OR">>,
       <<\h18, "XOR">>, <<\h19, "NOT">>, <<\h1a, "BYTE">>, <<\h35, "CALLDATALOAD">>,
       <<\h36, "CALLDATASIZE">>, <<\h37, "CALLDATACOPY">>, <<\h38, "CODESIZE">>, <<\h39, "CODECOPY">>,
       <<\h1b, "SHL">>, <<\h1c, "SHR">>, <<\h1d, "SAR">>, <<\h50, "POP">>,
       <<\h51, "MLOAD">>, <<\h52, "MSTORE">>, <<\h53, "MSTORE8">>, <<\h56, "JUMP">>,
       <<\h57, "JUMPI">>, <<\h58, "PC">>, <<\h59, "MSIZE">>, <<\h5b, "JUMPDEST">>,
       <<\h5f, "PUSH0">>, <<\h60, "PUSH1">>, <<\h61, "PUSH2">>, <<\h62, "PUSH3">>,
       <<\h63, "PUSH4">>, <<\h64, "PUSH5">>, <<\h65, "PUSH6">>, <<\h66, "PUSH7">>,
       <<\h67, "PUSH8">>, <<\h68, "PUSH9">>, <<\h69, "PUSH10">>, <<\h6a, "PUSH11">>,
       <<\h6b, "PUSH12">>, <<\h6c, "PUSH13">>, <<\h6d, "PUSH14">>, <<\h6e, "PUSH15">>,
       <<\h6f, "PUSH16">>, <<\h70, "PUSH17">>, <<\h71, "PUSH18">>, <<\h72, "PUSH19">>,
       <<\h73, "PUSH20">>, <<\h74, "PUSH21">>, <<\h75, "PUSH22">>, <<\h76, "PUSH23">>,
       <<\h77, "PUSH24">>, <<\h78, "PUSH25">>, <<\h79, "PUSH26">>, <<\h7a, "PUSH27">>,
       <<\h7b, "PUSH28">>, <<\h7c, "PUSH29">>, <<\h7d, "PUSH30">>, <<\h7e, "PUSH31">>,
       <<\h7f, "PUSH32">>, <<\h80, "DUP1">>, <<\h81, "DUP2">>, <<\h82, "DUP3">>,
       <<\h83, "DUP4">>, <<\h84, "DUP5">>, <<\h85, "DUP6">>, <<\h86, "DUP7">>,
       <<\h87, "DUP8">>, <<\h88, "DUP9">>, <<\h89, "DUP10">>, <<\h8a, "DUP11">>,
       <<\h8b, "DUP12">>, <<\h8c, "DUP13">>, <<\h8d, "DUP14">>, <<\h8e, "DUP15">>,
       <<\h8f, "DUP16">>, <<\h90, "SWAP1">>, <<\h91, "SWAP2">>, <<\h92, "SWAP3">>,
       <<\h93, "SWAP4">>, <<\h94, "SWAP5">>, <<\h95, "SWAP6">>, <<\h96, "SWAP7">>,
       <<\h97, "SWAP8">>, <<\h98, "SWAP9">>, <<\h99, "SWAP10">>, <<\h9a, "SWAP11">>,
       <<\h9b, "SWAP12">>, <<\h9c, "SWAP13">>, <<\h9d, "SWAP14">>, <<\h9e, "SWAP15">>,
       <<\h9f, "SWAP16">>, <<\hf3, "RETURN">>, <<\hfd, "REVERT">>, <<\hfe, "INVALID">>,
       <<\hef, "EOFMAGIC">> >>

\* The constants of the "External opcodes" impl block: <<value, constant name>>.
ExternalOpcodes ==
    << <<\h20, "SHA3">>, <<\h30, "ADDRESS">>, <<\h31, "BALANCE">>, <<\h47, "SELFBALANCE">>,
       <<\h48, "BASEFEE">>, <<\h32, "ORIGIN">>, <<\h33, "CALLER">>, <<\h34, "CALLVALUE">>,
       <<\h3a, "GASPRICE">>, <<\h3b, "EXTCODESIZE">>, <<\h3c, "EXTCODECOPY">>, <<\h3f, "EXTCODEHASH">>,
       <<\h3d, "RETURNDATASIZE">>, <<\h3e, "RETURNDATACOPY">>, <<\h40, "BLOCKHASH">>, <<\h41, "COINBASE">>,
       <<\h42, "TIMESTAMP">>, <<\h43, "NUMBER">>, <<\h44, "DIFFICULTY">>, <<\h45, "GASLIMIT">>,
       <<\h54, "SLOAD">>, <<\h55, "SSTORE">>, <<\h5a, "GAS">>, <<\ha0, "LOG0">>,
       <<\ha1, "LOG1">>, <<\ha2, "LOG2">>, <<\ha3, "LOG3">>, <<\ha4, "LOG4">>,
       <<\hf0, "CREATE">>, <<\hf5, "CREATE2">>, <<\hf1, "CALL">>, <<\hf2, "CALLCODE">>,
       <<\hf4, "DELEGATECALL">>, <<\hfa, "STATICCALL">>, <<\hff, "SUICIDE">>, <<\h46, "CHAINID">> >>

\* The first arm of a match whose pattern equals b, 0 when only `_` matches.
FirstArm(arms, b) ==
    LET hits == {i \in DOMAIN arms : arms[i][1] = b}
    IN  IF hits = {} THEN 0 ELSE CHOOSE i \in hits : \A j \in hits : i <= j

\* as_str with the SHR arm carrying SHL's mnemonic (a copy-and-paste slip).
as_str_shr_as_shl(b) ==
    LET i == FirstArm(MnemonicArms, b)
    IN  IF i = 0 THEN None
        ELSE IF b = \h1c THEN Some("SHL") ELSE Some(MnemonicArms[i][2])

\* Opcode::as_str: Some(match self.0 { ... _ => return None })
as_str(b) ==
    LET i == FirstArm(MnemonicArms, b)
    IN  IF i = 0 THEN None ELSE Some(MnemonicArms[i][2])

\* Option::unwrap_or
unwrap_or(o, default) == IF o.tag = "Some" THEN o.val ELSE default

\* The digits of {:x}
HexDigits == <<"0", "1", "2", "3", "4", "5", "6", "7",
               "8", "9", "a", "b", "c", "d", "e", "f">>

\* core::fmt::LowerHex for an unsigned value: lowercase, no prefix, no padding.
RECURSIVE LowerHex(_)
LowerHex(n) ==
    IF n < 16 THEN HexDigits[n + 1]
    ELSE LowerHex(n \div 16) \o HexDigits[(n % 16) + 1]

\* {:02x}: the same digits padded to two places.
LowerHexPadded(n) == HexDigits[(n \div 16) + 1] \o HexDigits[(n % 16) + 1]

\* Display written with {:02x} in place of {:x}.
fmt_padded(b) ==
    LET s == unwrap_or(as_str(b), "[UNKNOWN]")
    IN  "0x" \o LowerHexPadded(b) \o " / " \o s

\* impl Display for Opcode: write!(f, "0x{:x} / {}", self.0, s)
fmt(b) ==
    LET s == unwrap_or(as_str(b), "[UNKNOWN]")
    IN  "0x" \o LowerHex(b) \o " / " \o s

\* A u8 expression: its value modulo 2^8, and whether computing it overflowed.
u8(x) == [val |-> x % 256, overflowed |-> x \notin Byte]

\* a - b and a + b in u8, a an expression and b a literal.
u8_sub(a, b) == [val |-> (a.val - b) % 256,
                 overflowed |-> a.overflowed \/ (a.val - b) \notin Byte]

u8_add(a, b) == [val |-> (a.val + b) % 256,
                 overflowed |-> a.overflowed \/ (a.val + b) \notin Byte]

\* is_push without the "+ 1": the offset into the range, not the count.
is_push_offset(b) ==
    LET value == b
    IN  IF value \in \h60..\h7f
        THEN LET n == u8_sub(u8(value), \h60)
             IN  IF n.overflowed THEN Overflow ELSE Some(n.val)
        ELSE None

\* is_push with PUSH0 taken into the range: (0x5f..=0x7f).
is_push_with_push0(b) ==
    LET value == b
    IN  IF value \in \h5f..\h7f
        THEN LET n == u8_add(u8_sub(u8(value), \h60), 1)
             IN  IF n.overflowed THEN Overflow ELSE Some(n.val)
        ELSE None

\* Opcode::is_push
is_push(b) ==
    LET value == b
    IN  IF value \in \h60..\h7f
        THEN LET n == u8_add(u8_sub(u8(value), \h60), 1)
             IN  IF n.overflowed THEN Overflow ELSE Some(n.val)
        ELSE None

\* Opcode::as_u8
as_u8(b) == b

\* Opcode::as_usize: self.0 as usize, a widening cast
as_usize(b) == b

(***************************************************************************)
(* Spec: an Opcode is built and its methods are applied.                   *)
(***************************************************************************)
Running == "Running"

Exited == "Exited"

Trapped == "Trapped"

NoArg == <<>>

InitMachine == [pc |-> 0, stack |-> <<>>, memory |-> <<>>]

InitFrame ==
    [status |-> Running, trap |-> "none", cause |-> "none", reason |-> None,
     traps |-> 0, feedbacks |-> 0]

InitHandler == [storage |-> 0]

Init ==
    /\ opcode = 0
    /\ konst = ""
    /\ called = "new"
    /\ arg = NoArg
    /\ ret = None
    /\ machine = InitMachine
    /\ frame = InitFrame
    /\ handler = InitHandler

\* Opcode(b): the wrapper around a decoded byte.
New(b) ==
    /\ opcode' = b
    /\ konst' = ""
    /\ called' = "new"
    /\ arg' = b
    /\ ret' = None
    /\ UNCHANGED <<machine, frame, handler>>

\* Opcode::<NAME> of the core block.
CoreConst(i) ==
    /\ opcode' = CoreOpcodes[i][1]
    /\ konst' = CoreOpcodes[i][2]
    /\ called' = "const"
    /\ arg' = NoArg
    /\ ret' = None
    /\ UNCHANGED <<machine, frame, handler>>

\* Opcode::<NAME> of the external block.
ExternalConst(i) ==
    /\ opcode' = ExternalOpcodes[i][1]
    /\ konst' = ExternalOpcodes[i][2]
    /\ called' = "const"
    /\ arg' = NoArg
    /\ ret' = None
    /\ UNCHANGED <<machine, frame, handler>>

AsStr ==
    /\ called' = "as_str"
    /\ ret' = as_str(opcode)
    /\ arg' = NoArg
    /\ UNCHANGED <<opcode, konst, machine, frame, handler>>

IsPush ==
    /\ called' = "is_push"
    /\ ret' = is_push(opcode)
    /\ arg' = NoArg
    /\ UNCHANGED <<opcode, konst, machine, frame, handler>>

Fmt ==
    /\ called' = "fmt"
    /\ ret' = fmt(opcode)
    /\ arg' = NoArg
    /\ UNCHANGED <<opcode, konst, machine, frame, handler>>

AsU8 ==
    /\ called' = "as_u8"
    /\ ret' = as_u8(opcode)
    /\ arg' = NoArg
    /\ UNCHANGED <<opcode, konst, machine, frame, handler>>

AsUsize ==
    /\ called' = "as_usize"
    /\ ret' = as_usize(opcode)
    /\ arg' = NoArg
    /\ UNCHANGED <<opcode, konst, machine, frame, handler>>

Next ==
    \/ \E b \in Byte : New(b)
    \/ \E i \in DOMAIN CoreOpcodes : CoreConst(i)
    \/ \E i \in DOMAIN ExternalOpcodes : ExternalConst(i)
    \/ AsStr
    \/ IsPush
    \/ Fmt
    \/ AsU8
    \/ AsUsize

Spec == Init /\ [][Next]_vars

(***************************************************************************)
(* runtime/src/handler.rs                                                  *)
(***************************************************************************)

\* Bounds of the frame model.
MaxPc == 2

MaxValue == 1

Values == 0..MaxValue

\* ExitError::InvalidCode(opcode)
InvalidCode(op) == [error |-> "InvalidCode", opcode |-> op]

\* ExitFatal::CallErrorAsFatal(error)
CallErrorAsFatal(e) == [fatal |-> "CallErrorAsFatal", error |-> e]

\* An ExitFatal raised by the host itself (an unreliable environment).
HostFailure == [fatal |-> "HostFailure"]

\* Handler::RuntimeError: From<ExitFatal>. The error type is the
\* implementation's; it is kept as the fatal it was converted from.
FromExitFatal(f) == [runtime_error |-> "from ExitFatal", fatal |-> f]

\* Handler::RuntimeError: Into<ExitReason>. The trait only bounds the error
\* type; which reason an error converts to is the implementation's choice
\* between a Fatal reason and a structured Error reason, so the conversion is
\* the set of reasons it may yield.
IntoExitReason(e) == {[kind |-> k, of |-> e] : k \in {"Fatal", "Error"}}

\* The four families of ExitReason.
ExitReasons ==
    {[kind |-> "Succeed", of |-> "Returned"],
     [kind |-> "Revert", of |-> "Reverted"],
     [kind |-> "Error", of |-> "OutOfGas"],
     [kind |-> "Fatal", of |-> HostFailure]}

\* Capture::Exit and Capture::Trap
CaptureExit(e) == [capture |-> "Exit", exit |-> e]

CaptureTrap(t) == [capture |-> "Trap", trap |-> t]

\* A create_feedback that refuses by default.
create_feedback_refusing(h, feedback) ==
    [ret |-> Err(FromExitFatal(HostFailure)), handler |-> h]

\* Handler::create_feedback, the default body: Ok(())
create_feedback(h, feedback) == [ret |-> Ok(Unit), handler |-> h]

\* A call_feedback that records the feedback in the handler before it returns.
call_feedback_recording(h, feedback) ==
    [ret |-> Ok(Unit), handler |-> [h EXCEPT !.storage = feedback]]

\* Handler::call_feedback, the default body: Ok(())
call_feedback(h, feedback) == [ret |-> Ok(Unit), handler |-> h]

\* other reporting Opcode::INVALID whatever opcode it was given.
other_reporting_invalid(h, op, m) ==
    [ret |-> Err(FromExitFatal(CallErrorAsFatal(InvalidCode(\hfe)))),
     handler |-> h, machine |-> m]

\* Handler::other, the default body:
\*   Err(ExitFatal::CallErrorAsFatal(ExitError::InvalidCode(opcode)).into())
other(h, op, m) ==
    [ret |-> Err(FromExitFatal(CallErrorAsFatal(InvalidCode(op)))),
     handler |-> h, machine |-> m]

\* What an implementation's call or create may return: a finished Exit, a
\* Trap carrying its interrupt, or a RuntimeError.
Outcomes ==
    {Ok(CaptureExit(r)) : r \in ExitReasons}
        \cup {Ok(CaptureTrap("interrupt"))}
        \cup {Err(FromExitFatal(HostFailure))}

\* Handler::set_storage of an implementation that keeps one slot.
set_storage(h, value) == [ret |-> Ok(Unit), handler |-> [h EXCEPT !.storage = value]]

(***************************************************************************)
(* The interpreter and the orchestrator around the Handler: the call-frame *)
(* state machine Running -> {Exited | Trapped}, Trapped -> Running.        *)
(***************************************************************************)

\* An interpreter that may be advanced while its frame is Trapped.
CanAdvanceEvenTrapped(f, m) == f.status # Exited /\ m.pc < MaxPc

\* Whether the interpreter may be advanced.
CanAdvance(f, m) == f.status = Running /\ m.pc < MaxPc

\* Whether the orchestrator takes a feedback of this kind for the frame.
AcceptsFeedback(f, kind) == f.status = Trapped /\ f.trap = kind

\* The frame continues past the current instruction, v pushed as its result.
Continue(m, v) == [m EXCEPT !.pc = m.pc + 1, !.stack = Append(m.stack, v)]

ExitWith(f, cause, reason) ==
    [f EXCEPT !.status = Exited, !.trap = "none", !.cause = cause,
              !.reason = Some(reason)]

\* The orchestrator's refusal of a feedback it does not accept.
Rejected == [tag |-> "Rejected"]

\* A core instruction (PC, then MSTORE8 of it): the program counter is pushed
\* and written to memory.
Step ==
    /\ CanAdvance(frame, machine)
    /\ called' = "step"
    /\ arg' = NoArg
    /\ ret' = None
    /\ machine' = [Continue(machine, machine.pc) EXCEPT
                       !.memory = Append(machine.memory, machine.pc)]
    /\ UNCHANGED <<opcode, konst, frame, handler>>

\* STOP / RETURN: the frame exits normally.
Stop ==
    /\ frame.status = Running
    /\ called' = "stop"
    /\ arg' = NoArg
    /\ ret' = None
    /\ frame' = ExitWith(frame, "stop", [kind |-> "Succeed", of |-> "Stopped"])
    /\ UNCHANGED <<opcode, konst, machine, handler>>

\* A CALL-family (kind "call") or CREATE-family (kind "create") instruction:
\* the Handler's call or create answers with outcome.
Invoke(kind, outcome) ==
    /\ CanAdvance(frame, machine)
    /\ called' = kind
    /\ arg' = NoArg
    /\ ret' = outcome
    /\ IF outcome.tag = "Err"
       THEN /\ \E reason \in IntoExitReason(outcome.val) :
                   frame' = ExitWith(frame, "handler error", reason)
            /\ UNCHANGED machine
       ELSE IF outcome.val.capture = "Trap"
       THEN /\ frame' = [frame EXCEPT !.status = Trapped, !.trap = kind,
                                      !.traps = frame.traps + 1]
            /\ UNCHANGED machine
       ELSE IF outcome.val.exit.kind = "Fatal"
       THEN /\ frame' = ExitWith(frame, "fatal exit", outcome.val.exit)
            /\ UNCHANGED machine
       ELSE /\ machine' = Continue(machine,
                                   IF outcome.val.exit.kind = "Succeed" THEN 1 ELSE 0)
            /\ UNCHANGED frame
    /\ UNCHANGED <<opcode, konst, handler>>

\* The orchestrator delivers the feedback of a resolved trap: the Handler's
\* call_feedback or create_feedback is invoked and the outer frame resumes
\* past the triggering instruction with the fed-back value.
Deliver(kind, feedback) ==
    /\ called' = "deliver " \o kind
    /\ arg' = feedback
    /\ IF AcceptsFeedback(frame, kind)
       THEN LET r == IF kind = "call" THEN call_feedback(handler, feedback)
                     ELSE create_feedback(handler, feedback)
            IN  /\ ret' = r.ret
                /\ handler' = r.handler
                /\ IF r.ret.tag = "Ok"
                   THEN /\ frame' = [frame EXCEPT !.status = Running, !.trap = "none",
                                                  !.feedbacks = frame.feedbacks + 1]
                        /\ machine' = Continue(machine, feedback)
                   ELSE /\ \E reason \in IntoExitReason(r.ret.val) :
                               frame' = ExitWith(frame, "handler error", reason)
                        /\ UNCHANGED machine
       ELSE /\ ret' = Rejected
            /\ UNCHANGED <<machine, frame, handler>>
    /\ UNCHANGED <<opcode, konst>>

\* The dispatcher meets an opcode that is neither core nor external: the
\* Handler's other decides, and its error ends the frame.
Dispatch(b) ==
    /\ CanAdvance(frame, machine)
    /\ \A i \in DOMAIN CoreOpcodes : CoreOpcodes[i][1] # b
    /\ \A i \in DOMAIN ExternalOpcodes : ExternalOpcodes[i][1] # b
    /\ LET r == other(handler, b, machine)
       IN  /\ called' = "dispatch other"
           /\ arg' = b
           /\ ret' = r.ret
           /\ handler' = r.handler
           /\ machine' = r.machine
           /\ IF r.ret.tag = "Err"
              THEN \E reason \in IntoExitReason(r.ret.val) :
                       frame' = ExitWith(frame, "handler error", reason)
              ELSE UNCHANGED frame
    /\ UNCHANGED <<opcode, konst>>

\* The trait's methods invoked directly, in whatever state the frame is.
CallFeedback(feedback) ==
    LET r == call_feedback(handler, feedback)
    IN  /\ called' = "call_feedback"
        /\ arg' = feedback
        /\ ret' = r.ret
        /\ handler' = r.handler
        /\ UNCHANGED <<opcode, konst, machine, frame>>

CreateFeedback(feedback) ==
    LET r == create_feedback(handler, feedback)
    IN  /\ called' = "create_feedback"
        /\ arg' = feedback
        /\ ret' = r.ret
        /\ handler' = r.handler
        /\ UNCHANGED <<opcode, konst, machine, frame>>

Other(b) ==
    LET r == other(handler, b, machine)
    IN  /\ called' = "other"
        /\ arg' = b
        /\ ret' = r.ret
        /\ handler' = r.handler
        /\ machine' = r.machine
        /\ UNCHANGED <<opcode, konst, frame>>

SetStorage(value) ==
    LET r == set_storage(handler, value)
    IN  /\ called' = "set_storage"
        /\ arg' = value
        /\ ret' = r.ret
        /\ handler' = r.handler
        /\ UNCHANGED <<opcode, konst, machine, frame>>

\* The frame driven through call, create and their feedback.
HandlerNext ==
    \/ Step
    \/ Stop
    \/ \E o \in Outcomes : Invoke("call", o)
    \/ \E o \in Outcomes : Invoke("create", o)
    \/ \E v \in Values : Deliver("call", v)
    \/ \E v \in Values : Deliver("create", v)
    \/ \E b \in Byte : Dispatch(b)
    \/ \E v \in Values : CallFeedback(v)
    \/ \E v \in Values : CreateFeedback(v)
    \/ \E v \in Values : SetStorage(v)

HandlerSpec == Init /\ [][HandlerNext]_vars

\* Handler::other invoked with every byte, in every state of a frame that
\* steps and stops over a Handler whose storage changes.
FallbackNext ==
    \/ Step
    \/ Stop
    \/ \E v \in Values : SetStorage(v)
    \/ \E b \in Byte : Other(b)

FallbackSpec == Init /\ [][FallbackNext]_vars

(***************************************************************************)
(* Properties of the opcode table, checked under Spec.                     *)
(***************************************************************************)

\* Every named constant, core then external.
NamedOpcodes == CoreOpcodes \o ExternalOpcodes

\* The names of the constants whose value is b.
NamesOf(b) == {NamedOpcodes[i][2] : i \in {j \in DOMAIN NamedOpcodes : NamedOpcodes[j][1] = b}}

\* n in decimal, for n below 100.
DecDigits == <<"0", "1", "2", "3", "4", "5", "6", "7", "8", "9">>

Decimal(n) ==
    IF n < 10 THEN DecDigits[n + 1]
    ELSE DecDigits[(n \div 10) + 1] \o DecDigits[(n % 10) + 1]

StartsWith(s, prefix) ==
    /\ Len(s) >= Len(prefix)
    /\ SubSeq(s, 1, Len(prefix)) = prefix

\* The value of a string of lowercase hexadecimal digits, -1 when it holds
\* any other character.
LowerHexAlphabet == "0123456789abcdef"

HexDigitValue(c) ==
    IF \E i \in 1..16 : SubSeq(LowerHexAlphabet, i, i) = c
    THEN (CHOOSE i \in 1..16 : SubSeq(LowerHexAlphabet, i, i) = c) - 1
    ELSE -1

RECURSIVE ParseLowerHex(_)
ParseLowerHex(s) ==
    IF Len(s) = 0 THEN -1
    ELSE LET d == HexDigitValue(SubSeq(s, Len(s), Len(s)))
         IN  IF d < 0 THEN -1
             ELSE IF Len(s) = 1 THEN d
             ELSE LET hi == ParseLowerHex(SubSeq(s, 1, Len(s) - 1))
                  IN  IF hi < 0 THEN -1 ELSE 16 * hi + d

\* C1 (as stated): as_str returns Some(mnemonic) for exactly the bytes that
\* have a named constant, core or external, and None for every other byte.
C1_AsStrNamesEveryConstant ==
    called = "as_str" =>
        /\ \A n \in NamesOf(opcode) : ret = Some(n)
        /\ (NamesOf(opcode) = {}) => ret = None

\* C2: is_push returns Some(b - 0x60 + 1), a count in 1..=32 that strictly
\* increases with b, for b in 0x60..=0x7f, and None for every other byte;
\* the u8 arithmetic never overflows.
C2_IsPushCount ==
    called = "is_push" =>
        /\ ret # Overflow
        /\ IF opcode \in \h60..\h7f
           THEN /\ ret = Some(opcode - \h60 + 1)
                /\ ret.val \in 1..32
                /\ \A c \in \h60..\h7f :
                       c < opcode => /\ is_push(c).tag = "Some"
                                     /\ is_push(c).val < ret.val
           ELSE ret = None

\* C2's case: PUSH32, the top of the range, counted 32.
C2_Witness ==
    /\ called = "is_push"
    /\ opcode = \h7f
    /\ ret = Some(32)

\* C8: Display renders "0x", the byte in lowercase hexadecimal without
\* leading zeros, " / ", then the mnemonic of as_str or "[UNKNOWN]".
C8_DisplayFormat ==
    called = "fmt" =>
        LET width == IF opcode < 16 THEN 1 ELSE 2
            digits == SubSeq(ret, 3, 2 + width)
            name == IF as_str(opcode).tag = "Some" THEN as_str(opcode).val
                    ELSE "[UNKNOWN]"
        IN  /\ SubSeq(ret, 1, 2) = "0x"
            /\ ParseLowerHex(digits) = opcode
            /\ width = 2 => SubSeq(digits, 1, 1) # "0"
            /\ SubSeq(ret, 3 + width, Len(ret)) = " / " \o name
            /\ opcode = \h01 => ret = "0x1 / ADD"
            /\ opcode = \h0c => ret = "0xc / [UNKNOWN]"

\* C8's case: an unassigned byte below 0x10 is rendered.
C8_Witness ==
    /\ called = "fmt"
    /\ opcode = \h0c
    /\ ret = "0xc / [UNKNOWN]"

\* C9: is_push is Some(n) exactly when the mnemonic is "PUSH" followed by
\* the decimal n, 1 <= n <= 32; PUSH0 (0x5f) is the only byte whose mnemonic
\* starts with "PUSH" while is_push is None.
C9_PushAgreement ==
    called = "is_push" =>
        LET name == as_str(opcode)
        IN  /\ \A n \in Byte :
                   (ret = Some(n)) <=>
                       /\ n \in 1..32
                       /\ name = Some("PUSH" \o Decimal(n))
            /\ (opcode = \h5f) <=>
                   /\ name.tag = "Some"
                   /\ StartsWith(name.val, "PUSH")
                   /\ ret = None

\* C9's case: is_push applied to PUSH0.
C9_Witness ==
    /\ called = "is_push"
    /\ konst = "PUSH0"
    /\ ret = None

\* C10: no byte is the value of two different named constants (so the core
\* and the external constants are disjoint), and no mnemonic is returned by
\* as_str for two different bytes.
C10_DistinctAssignments ==
    /\ konst # "" =>
           /\ \A i \in DOMAIN NamedOpcodes :
                  NamedOpcodes[i][2] # konst => NamedOpcodes[i][1] # opcode
           /\ (\E i \in DOMAIN CoreOpcodes : CoreOpcodes[i][2] = konst) =>
                  \A j \in DOMAIN ExternalOpcodes : ExternalOpcodes[j][1] # opcode
           /\ (\E j \in DOMAIN ExternalOpcodes : ExternalOpcodes[j][2] = konst) =>
                  \A i \in DOMAIN CoreOpcodes : CoreOpcodes[i][1] # opcode
    /\ (called = "as_str" /\ ret.tag = "Some") =>
           \A b \in Byte : b # opcode => as_str(b) # ret

\* C10's case: as_str applied to a named constant returned its mnemonic.
C10_Witness ==
    /\ konst = "SHR"
    /\ called = "as_str"
    /\ ret = Some("SHR")

(***************************************************************************)
(* Properties of the Handler contract, checked under HandlerSpec and       *)
(* FallbackSpec.                                                           *)
(***************************************************************************)

FeedbackMethods == {"call_feedback", "create_feedback"}

Deliveries == {"deliver call", "deliver create"}

\* C3: once call or create has returned Capture::Trap the frame executes
\* nothing (pc, stack and memory keep their values) until the corresponding
\* feedback is delivered; that delivery alone returns the frame to Running,
\* past the triggering instruction, with the fed-back value on its stack.
C3_TrapSuspendsFrame ==
    /\ []((called \in {"call", "create"} /\ ret = Ok(CaptureTrap("interrupt")))
              => (frame.status = Trapped /\ frame.trap = called))
    /\ [][frame.status = Trapped =>
              \/ /\ machine' = machine
                 /\ frame' = frame
              \/ /\ called' = "deliver " \o frame.trap
                 /\ ret' = Ok(Unit)
                 /\ frame'.status = Running
                 /\ machine'.pc = machine.pc + 1
                 /\ machine'.stack = Append(machine.stack, arg')
                 /\ machine'.memory = machine.memory]_vars

\* C3's case: a trapped frame was resumed by its feedback, whose value is
\* on top of the stack.
C3_Witness ==
    /\ called = "deliver create"
    /\ ret = Ok(Unit)
    /\ frame.status = Running
    /\ frame.feedbacks = 1
    /\ machine.pc = 2
    /\ machine.stack = <<0, arg>>
    /\ arg = 1

\* C4 (as stated): a feedback completes successfully only for a frame that
\* is Trapped; delivered to a Running or Exited frame, or a second time for
\* the same trap, it does not complete as a normal success.
C4_FeedbackGuarded ==
    [][(called' \in FeedbackMethods \cup Deliveries /\ ret' = Ok(Unit))
           => frame.status = Trapped]_vars

\* C4 (amended): the frame leaves Trapped for Running by a delivered feedback
\* only, one per trap, and a delivery the orchestrator does not accept
\* changes nothing; but the Handler's default call_feedback and
\* create_feedback do not guard: invoked for a Running or Exited frame, or
\* again for the same trap, they return Ok(()) all the same and move no
\* frame.
C4_FeedbackTransitions ==
    /\ [](frame.feedbacks = frame.traps - (IF frame.status = Trapped THEN 1 ELSE 0))
    /\ [][frame'.status # frame.status =>
              \/ frame.status = Running /\ frame'.status \in {Exited, Trapped}
              \/ /\ frame.status = Trapped
                 /\ frame'.status = Running
                 /\ called' = "deliver " \o frame.trap
                 /\ frame'.feedbacks = frame.feedbacks + 1]_vars
    /\ [][called' \in Deliveries =>
              \/ frame.status = Trapped /\ called' = "deliver " \o frame.trap
              \/ /\ ret' = Rejected
                 /\ frame' = frame
                 /\ machine' = machine
                 /\ handler' = handler]_vars
    /\ [][called' \in FeedbackMethods =>
              /\ ret' = Ok(Unit)
              /\ frame' = frame
              /\ machine' = machine]_vars

\* C4's case: create_feedback invoked again, after the one trap of the
\* frame was resumed, returned Ok(()) and the frame is still Running.
C4_Witness ==
    /\ called = "create_feedback"
    /\ ret = Ok(Unit)
    /\ frame.status = Running
    /\ frame.traps = 1
    /\ frame.feedbacks = 1

\* C5: the default other returns Err of the RuntimeError converted from
\* ExitFatal::CallErrorAsFatal(ExitError::InvalidCode(opcode)), opcode being
\* the byte it was given; it never returns Ok and changes neither the
\* machine nor the handler.
C5_OtherInvalidCode ==
    /\ [](called = "other" =>
              /\ ret = Err(FromExitFatal(CallErrorAsFatal(InvalidCode(arg))))
              /\ ret.tag # "Ok"
              /\ ret.val.fatal.error.opcode = arg)
    /\ [][called' = "other" => (machine' = machine /\ handler' = handler)]_vars

\* C5's case: other was given the unassigned byte 0x0c on a machine that has
\* run and a handler whose storage was written.
C5_Witness ==
    /\ called = "other"
    /\ arg = \h0c
    /\ ret = Err(FromExitFatal(CallErrorAsFatal(InvalidCode(\h0c))))
    /\ machine.pc > 0
    /\ handler.storage = 1

\* C6: the default call_feedback and create_feedback return Ok(()) for every
\* feedback value, in every state and order, and change no handler state.
C6_DefaultFeedbackOk ==
    [][(called' \in FeedbackMethods
            \/ (called' \in Deliveries /\ ret' # Rejected))
           => (ret' = Ok(Unit) /\ handler' = handler)]_vars

\* C6's case: call_feedback invoked on an Exited frame that never trapped,
\* over a handler whose storage was written.
C6_Witness ==
    /\ called = "call_feedback"
    /\ arg = 0
    /\ ret = Ok(Unit)
    /\ frame.status = Exited
    /\ frame.traps = 0
    /\ handler.storage = 1

====
